---- MODULE Spec2Model ----
(***************************************************************************)
(* Meltano runtime environments (meltano/core/environment.py).             *)
(*                                                                         *)
(* Python objects that can be mutated (dicts) live in an object store      *)
(* `heap`; a reference to one is the value <<"ref", address>>.  A dict is  *)
(* a function from its keys (strings) to values.  Optional values are      *)
(* sequences of length at most one: None is <<>>, a present value x is     *)
(* <<x>>.  An insertion-ordered dict whose iteration order matters (the    *)
(* raw `plugins` mapping) is the sequence of its items.                    *)
(***************************************************************************)
EXTENDS Integers, Sequences, FiniteSets, TLC

VARIABLES
    heap,            \* object store: address -> contents of the dict there
    name_arg,        \* argument `name` of Environment(name, config)
    config_arg,      \* argument `config` of Environment(name, config)
    pc,              \* "new", "loop" (inside load_plugins), "done", "raised"
    items,           \* load_plugins: plugins.items(), in iteration order
    i,               \* load_plugins: items taken so far by the outer loop
    j,               \* load_plugins: specs of item i taken by the inner loop
    plugin_type,     \* load_plugins: local plugin_type
    plugin_mapping,  \* load_plugins: local plugin_mapping
    env,             \* the constructed Environment, None until it exists
    error,           \* the exception the last call raised, "" if none
    query,           \* arguments of the last get_plugin_config call
    result,          \* value returned by the last get_plugin_config call
    ret,             \* last mapping returned by a property of `result`
    built,           \* history: deep values of the input and of env on return
    seen,            \* history: each property call, with the deep values it read and its outcome
    hist             \* history: number of caller mutations of each kind so far

vars == <<heap, name_arg, config_arg, pc, items, i, j, plugin_type,
          plugin_mapping, env, error, query, result, ret, built, seen, hist>>

(***************************************************************************)
(* Bounds of the model.                                                    *)
(***************************************************************************)
MaxSpecs == 3        \* raw specs in one raw `plugins` mapping, in total
MaxOps == 3           \* property calls and caller mutations after construction

(***************************************************************************)
(* Values.                                                                 *)
(***************************************************************************)
None == <<>>
Some(x) == <<x>>
EmptyDict == <<>>

IntV(n) == <<"int", n>>
StrV(s) == <<"str", s>>
RefV(a) == <<"ref", a>>
IsRef(v) == v[1] = "ref"

\* The object store with one more object; its address is Len(h) + 1.
Alloc(h, contents) == Append(h, contents)

\* The dict d without the keys in ks.
Without(d, ks) == [k \in (DOMAIN d) \ ks |-> d[k]]

\* The deep value of v in h, below the dicts of `path` (outermost first): a
\* dict that holds itself, directly or not, shows as the number of levels
\* back up to it, so that a copy has the deep value of its original.
RECURSIVE DeepBelow(_, _, _)
DeepBelow(h, v, path) ==
    IF ~IsRef(v)
    THEN v
    ELSE IF \E n \in 1..Len(path) : path[n] = v[2]
    THEN <<"back", Len(path) - (CHOOSE n \in 1..Len(path) : path[n] = v[2])>>
    ELSE <<"dict", [k \in DOMAIN h[v[2]] |->
                      DeepBelow(h, h[v[2]][k], Append(path, v[2]))]>>

\* The deep value of v in h: what == compares in Python.
Deep(h, v) == DeepBelow(h, v, <<>>)

\* The addresses reachable from the value v in h without passing `visited`.
RECURSIVE ReachBeyond(_, _, _)
ReachBeyond(h, v, visited) ==
    IF ~IsRef(v)
    THEN {}
    ELSE IF v[2] \in visited
    THEN {}
    ELSE {v[2]} \cup UNION {ReachBeyond(h, h[v[2]][k], visited \cup {v[2]}) :
                               k \in DOMAIN h[v[2]]}

\* The addresses reachable from the value v in h, v's own included.
Reach(h, v) == ReachBeyond(h, v, {})

(***************************************************************************)
(* copy.deepcopy on JSON-like values: a dict is copied into a new dict,    *)
(* its values recursively; the memo maps each object already copied to its *)
(* copy, so shared structure stays shared inside the copy.                 *)
(***************************************************************************)
RECURSIVE deepcopy(_, _, _)
RECURSIVE deepcopy_items(_, _, _, _, _)

deepcopy(h, memo, v) ==
    IF ~IsRef(v)
    THEN [heap |-> h, memo |-> memo, value |-> v]
    ELSE IF v[2] \in DOMAIN memo
    THEN [heap |-> h, memo |-> memo, value |-> RefV(memo[v[2]])]
    ELSE LET y == Len(h) + 1
             r == deepcopy_items(Alloc(h, EmptyDict), (v[2] :> y) @@ memo,
                                 v[2], y, DOMAIN h[v[2]])
         IN [heap |-> r.heap, memo |-> r.memo, value |-> RefV(y)]

deepcopy_items(h, memo, x, y, keys) ==
    IF keys = {}
    THEN [heap |-> h, memo |-> memo]
    ELSE LET k == CHOOSE key \in keys : TRUE
             r == deepcopy(h, memo, h[x][k])
         IN deepcopy_items([r.heap EXCEPT ![y] = (k :> r.value) @@ @],
                           r.memo, x, y, keys \ {k})

(***************************************************************************)
(* PluginType: the enumeration of plugin types, looked up by value.        *)
(* PluginType(raw) raises ValueError when no member has the value raw.     *)
(***************************************************************************)
PluginTypeMembers == ("extractors" :> "EXTRACTORS") @@ ("loaders" :> "LOADERS")
IsPluginType(raw) == raw \in DOMAIN PluginTypeMembers
PluginType(raw) == PluginTypeMembers[raw]

(***************************************************************************)
(* EnvironmentPluginConfig.                                                *)
(***************************************************************************)
\* Python truth value of v in h.
Truthy(h, v) ==
    IF IsRef(v) THEN DOMAIN h[v[2]] # {}
    ELSE IF v[1] = "int" THEN v[2] # 0
    ELSE v[2] # ""

\* `config or {}`: config when it is given and truthy, else a new empty dict.
config_or_empty(h, config) ==
    IF config # None /\ Truthy(h, config[1])
    THEN [heap |-> h, value |-> config[1]]
    ELSE [heap |-> Alloc(h, EmptyDict), value |-> RefV(Len(h) + 1)]

\* Mutant of copy_config: copy.copy in place of copy.deepcopy.
copy_config_shallow(h, config) ==
    LET c == config_or_empty(h, config)
    IN IF IsRef(c.value)
       THEN [heap |-> Alloc(c.heap, c.heap[c.value[2]]), memo |-> <<>>,
             value |-> RefV(Len(c.heap) + 1)]
       ELSE [heap |-> c.heap, memo |-> <<>>, value |-> c.value]

\* self.config = copy.deepcopy(config or {})
copy_config(h, config) ==
    LET c == config_or_empty(h, config)
    IN deepcopy(c.heap, <<>>, c.value)

\* The parameters of __init__ that the call already binds: a keyword of
\* **raw_plugin with one of these names gives the parameter a second value.
BoundParameters == {"self", "plugin_type"}

\* EnvironmentPluginConfig(plugin_type=ptype, **kwargs): binds kwargs to the
\* signature (self, plugin_type, name, config=None, **extras), then runs
\* __init__.  PluginRef.__init__ keeps plugin_type and name on the object.
EnvironmentPluginConfig(h, ptype, kwargs) ==
    IF (DOMAIN kwargs) \cap BoundParameters # {} \/ "name" \notin DOMAIN kwargs
    THEN [raised |-> "TypeError", heap |-> h, self |-> None]
    ELSE LET h1 == Alloc(h, Without(kwargs, {"name", "config"}))
             extras == RefV(Len(h) + 1)
             c == copy_config(h1, IF "config" \in DOMAIN kwargs
                                  THEN Some(kwargs["config"]) ELSE None)
         IN [raised |-> "", heap |-> c.heap,
             self |-> Some([plugin_type |-> ptype, name |-> kwargs["name"],
                            config |-> c.value, extras |-> extras])]

\* Mutant of prefixed: the keys are left as they are.
prefixed_none(extras) == extras

\* {f"_{key}": value for key, value in extras.items()}
prefixed(extras) ==
    [key \in {"_" \o k : k \in DOMAIN extras} |->
        extras[CHOOSE k \in DOMAIN extras : "_" \o k = key]]

\* Mutant of merged: {**extra_config, **config}.
merged_config_wins(config, extra_config) ==
    [key \in (DOMAIN config) \cup (DOMAIN extra_config) |->
        IF key \in DOMAIN config THEN config[key] ELSE extra_config[key]]

\* {**config, **extra_config}
merged(config, extra_config) ==
    [key \in (DOMAIN config) \cup (DOMAIN extra_config) |->
        IF key \in DOMAIN extra_config THEN extra_config[key] ELSE config[key]]

\* The property extra_config of self: a new dict.  self.extras is the dict
\* of the keyword arguments, so the comprehension never raises.
extra_config(h, self) ==
    [raised |-> "", heap |-> Alloc(h, prefixed(h[self.extras[2]])),
     value |-> Some(RefV(Len(h) + 1))]

\* Mutant of config_with_extras: self.config.update(self.extra_config),
\* and self.config is returned.
config_with_extras_in_place(h, self) ==
    IF ~IsRef(self.config)
    THEN [raised |-> "TypeError", heap |-> h, value |-> None]
    ELSE LET e == Alloc(h, prefixed(h[self.extras[2]]))
         IN [raised |-> "",
             heap |-> [e EXCEPT ![self.config[2]] = merged(@, e[Len(e)])],
             value |-> Some(self.config)]

\* The property config_with_extras of self: a new dict, built from
\* self.config and a new self.extra_config.  **self.config is unpacked
\* first and raises TypeError when self.config is not a mapping: __init__
\* keeps a truthy config of any type, deep-copied.
config_with_extras(h, self) ==
    IF ~IsRef(self.config)
    THEN [raised |-> "TypeError", heap |-> h, value |-> None]
    ELSE LET e == extra_config(h, self)
         IN [raised |-> "",
             heap |-> Alloc(e.heap, merged(e.heap[self.config[2]],
                                           e.heap[e.value[1][2]])),
             value |-> Some(RefV(Len(e.heap) + 1))]

(***************************************************************************)
(* EnvironmentConfig and Environment.                                      *)
(***************************************************************************)
\* EnvironmentConfig(**kwargs) up to the call of load_plugins: binds kwargs
\* to the signature (plugins=None); load_plugins gets `plugins or {}`.
EnvironmentConfig_init(kwargs) ==
    IF ~((DOMAIN kwargs) \subseteq {"plugins"})
    THEN [raised |-> "TypeError", items |-> <<>>]
    ELSE [raised |-> "",
          items |-> IF "plugins" \in DOMAIN kwargs THEN kwargs["plugins"] ELSE <<>>]

\* Mutant of Environment_init: EnvironmentConfig(**config), without `or {}`.
Environment_init_required(config) ==
    IF config = None
    THEN [raised |-> "TypeError", items |-> <<>>]
    ELSE EnvironmentConfig_init(config[1])

\* Environment(name, config) up to the call of load_plugins:
\* EnvironmentConfig(**(config or {})).
Environment_init(config) ==
    EnvironmentConfig_init(IF config = None THEN EmptyDict ELSE config[1])

\* Mutant of index_key: the name alone.
index_key_by_name(ptype, plugin) == <<plugin.name>>

\* A dict key is hashed when it is stored or looked up.  A tuple hashes its
\* elements: a PluginType member always has a hash, the name (the last
\* element) has none when it is a dict.
Hashable(key) == ~IsRef(key[Len(key)])

\* Mutant of set_item: plugin_mapping.setdefault(key, plugin).
set_item_keep_first(mapping, key, value) ==
    IF ~Hashable(key)
    THEN [raised |-> "TypeError", mapping |-> mapping]
    ELSE [raised |-> "",
          mapping |-> [k \in (DOMAIN mapping) \cup {key} |->
                          IF k \in DOMAIN mapping THEN mapping[k] ELSE value]]

\* plugin_mapping[(plugin_type, plugin.name)] = plugin
index_key(ptype, plugin) == <<ptype, plugin.name>>
set_item(mapping, key, value) ==
    IF ~Hashable(key)
    THEN [raised |-> "TypeError", mapping |-> mapping]
    ELSE [raised |-> "",
          mapping |-> [k \in (DOMAIN mapping) \cup {key} |->
                          IF k = key THEN value ELSE mapping[k]]]

\* Mutant of get_plugin_config: the first plugin of that name, of any type.
get_plugin_config_by_name(e, ptype, name) ==
    IF ~Hashable(<<ptype, name>>)
    THEN [raised |-> "TypeError", value |-> None]
    ELSE IF \E key \in DOMAIN e.config.plugins : key[2] = name
    THEN [raised |-> "",
          value |-> Some(e.config.plugins[CHOOSE key \in DOMAIN e.config.plugins :
                                              key[2] = name])]
    ELSE [raised |-> "", value |-> None]

\* self.config.plugins.get((plugin_type, name))
get_plugin_config(e, ptype, name) ==
    IF ~Hashable(<<ptype, name>>)
    THEN [raised |-> "TypeError", value |-> None]
    ELSE IF <<ptype, name>> \in DOMAIN e.config.plugins
    THEN [raised |-> "", value |-> Some(e.config.plugins[<<ptype, name>>])]
    ELSE [raised |-> "", value |-> None]

\* Mutant of resolve_item: the type is resolved only once a spec needs it.
resolve_item_lazy(item) ==
    IF IsPluginType(item.type)
    THEN [raised |-> "", plugin_type |-> PluginType(item.type)]
    ELSE IF item.specs = <<>>
    THEN [raised |-> "", plugin_type |-> item.type]
    ELSE [raised |-> "ValueError", plugin_type |-> ""]

\* for raw_plugin_type, raw_plugins in plugins.items():
\*     plugin_type = PluginType(raw_plugin_type)
resolve_item(item) ==
    IF IsPluginType(item.type)
    THEN [raised |-> "", plugin_type |-> PluginType(item.type)]
    ELSE [raised |-> "ValueError", plugin_type |-> ""]

(***************************************************************************)
(* History: deep values, kept to state what later steps must preserve.     *)
(***************************************************************************)
Positions(its) ==
    UNION {{<<a, b>> : b \in 1..Len(its[a].specs)} : a \in 1..Len(its)}

RawSpec(its, pos) == its[pos[1]].specs[pos[2]]

\* The deep value of each raw spec's config (None where it gives none).
RawConfigs(h, its) ==
    [pos \in Positions(its) |->
        IF "config" \in DOMAIN RawSpec(its, pos)
        THEN Some(Deep(h, RawSpec(its, pos)["config"]))
        ELSE None]

\* The deep value of an environment.
DeepEnv(h, e) ==
    [name |-> e.name,
     plugins |-> [key \in DOMAIN e.config.plugins |->
                    [plugin_type |-> e.config.plugins[key].plugin_type,
                     name |-> e.config.plugins[key].name,
                     config |-> Deep(h, e.config.plugins[key].config),
                     extras |-> Deep(h, e.config.plugins[key].extras)]]]

(***************************************************************************)
(* Inputs.                                                                 *)
(***************************************************************************)
EnvNames == {"dev"}
RawTypes == {"extractors", "loaders", "bogus"}
Names == {StrV("tap-a"), StrV("tap-b")}
PluginTypes == {PluginTypeMembers[t] : t \in DOMAIN PluginTypeMembers}

\* The sequences over S of length at most n.
SeqsUpTo(S, n) == UNION {[1..m -> S] : m \in 0..n}

\* The ways to cut a sequence of length n into k consecutive pieces.
Cuts(n, k) ==
    {c \in [0..k -> 0..n] :
        /\ c[0] = 0
        /\ c[k] = n
        /\ \A x \in 1..k : c[x - 1] <= c[x]}

\* The raw `plugins` mappings with the type keys ts, in that order, whose
\* spec lists are the pieces of flat.
PluginsOf(ts, flat, c) ==
    [x \in 1..Len(ts) |->
        [type |-> ts[x], specs |-> SubSeq(flat, c[x - 1] + 1, c[x])]]

TypeSeqs ==
    {ts \in SeqsUpTo(RawTypes, Cardinality(RawTypes)) :
        \A x, y \in 1..Len(ts) : x # y => ts[x] # ts[y]}

\* The `config` arguments that carry the raw `plugins` mapping ps.
ConfigsOf(ps) ==
    {Some("plugins" :> ps), Some(("plugins" :> ps) @@ ("state_id" :> StrV("dev")))}

\* Construction and lookup: raw specs that share one raw config dict.
HeapA == <<("_select" :> IntV(1))>>
RawSpecsA ==
    {("name" :> n) @@ c : n \in Names,
                          c \in {EmptyDict,
                                 ("config" :> RefV(1)) @@ ("select" :> IntV(2))}}
    \cup {("config" :> RefV(1))}

\* Aliasing: one raw spec whose config holds a nested dict (address 2) and
\* whose extras may hold another (address 3).
NestedB == "y" :> IntV(1)
ExtraValueB == "z" :> IntV(3)
DictsOver(keys, values) == UNION {[ks -> values] : ks \in SUBSET keys}
ConfigsB == DictsOver({"x", "_select"}, {IntV(1), RefV(2)})
HeapsB == {<<c, NestedB, ExtraValueB>> : c \in ConfigsB}
RawSpecsB ==
    {("name" :> StrV("tap-a")) @@ c @@ e :
        c \in {EmptyDict, ("config" :> RefV(1))},
        e \in DictsOver({"select", "_select"}, {RefV(3)})}
    \cup {("name" :> StrV("tap-a")) @@ ("config" :> IntV(2)) @@ e :
             e \in DictsOver({"select"}, {RefV(3)})}
    \cup {("name" :> StrV("tap-a")) @@ ("plugin_type" :> StrV("loaders")),
          ("name" :> StrV("tap-a")) @@ ("self" :> IntV(1)),
          ("name" :> RefV(3))}
ConfigB(raw) == Some("plugins" :> <<[type |-> "extractors", specs |-> <<raw>>]>>)

MutationKinds == {"raw", "stored", "returned", "returned_value"}

\* What a caller may do to the dict d: set a key, or delete one.
MutKeys == {"x"}
MutValues == {IntV(9)}
Mutations(d) ==
    {[k \in (DOMAIN d) \cup {key} |-> IF k = key THEN v ELSE d[k]] :
        key \in MutKeys, v \in MutValues}
    \cup {Without(d, {key}) : key \in DOMAIN d}

(***************************************************************************)
(* State machine.                                                          *)
(***************************************************************************)
InitCommon ==
    /\ name_arg \in EnvNames
    /\ pc = "new"
    /\ items = <<>>
    /\ i = 0
    /\ j = 0
    /\ plugin_type = ""
    /\ plugin_mapping = <<>>
    /\ env = None
    /\ error = ""
    /\ query = None
    /\ result = None
    /\ ret = None
    /\ built = None
    /\ seen = <<>>
    /\ hist = [kind \in MutationKinds |-> 0]

Init ==
    /\ heap = HeapA
    /\ \/ config_arg \in {None, Some(EmptyDict)}
       \/ \E ts \in TypeSeqs, flat \in SeqsUpTo(RawSpecsA, MaxSpecs) :
            \E c \in Cuts(Len(flat), Len(ts)) :
                config_arg \in ConfigsOf(PluginsOf(ts, flat, c))
    /\ InitCommon

InitAlias ==
    /\ heap \in HeapsB
    /\ \E raw \in RawSpecsB :
        /\ (IF "config" \in DOMAIN raw THEN ~IsRef(raw["config"]) ELSE TRUE)
               => heap[1] = EmptyDict
        /\ config_arg = ConfigB(raw)
    /\ InitCommon

\* Environment.__init__ and EnvironmentConfig.__init__, up to the first
\* statement of load_plugins.
Construct ==
    /\ pc = "new"
    /\ LET r == Environment_init(config_arg)
       IN IF r.raised # ""
          THEN /\ pc' = "raised"
               /\ error' = r.raised
               /\ UNCHANGED <<items, plugin_mapping>>
          ELSE /\ pc' = "loop"
               /\ items' = r.items
               /\ plugin_mapping' = <<>>
               /\ UNCHANGED error
    /\ UNCHANGED <<heap, name_arg, config_arg, i, j, plugin_type, env,
                   query, result, ret, built, seen, hist>>

AtItemEnd == IF i = 0 THEN TRUE ELSE j = Len(items[i].specs)

\* load_plugins: the outer loop takes the next item and resolves its type.
NextItem ==
    /\ pc = "loop"
    /\ AtItemEnd
    /\ i < Len(items)
    /\ LET r == resolve_item(items[i + 1])
       IN IF r.raised # ""
          THEN /\ pc' = "raised"
               /\ error' = r.raised
               /\ UNCHANGED <<i, j, plugin_type>>
          ELSE /\ plugin_type' = r.plugin_type
               /\ i' = i + 1
               /\ j' = 0
               /\ UNCHANGED <<pc, error>>
    /\ UNCHANGED <<heap, name_arg, config_arg, items, plugin_mapping, env,
                   query, result, ret, built, seen, hist>>

\* load_plugins: the inner loop builds the next plugin and stores it.
LoadPlugin ==
    /\ pc = "loop"
    /\ i > 0
    /\ j < Len(items[i].specs)
    /\ LET r == EnvironmentPluginConfig(heap, plugin_type, items[i].specs[j + 1])
       IN IF r.raised # ""
          THEN /\ pc' = "raised"
               /\ error' = r.raised
               /\ UNCHANGED <<heap, j, plugin_mapping>>
          ELSE LET s == set_item(plugin_mapping, index_key(plugin_type, r.self[1]),
                                 r.self[1])
               IN /\ heap' = r.heap
                  /\ IF s.raised # ""
                     THEN /\ pc' = "raised"
                          /\ error' = s.raised
                          /\ UNCHANGED <<j, plugin_mapping>>
                     ELSE /\ plugin_mapping' = s.mapping
                          /\ j' = j + 1
                          /\ UNCHANGED <<pc, error>>
    /\ UNCHANGED <<name_arg, config_arg, items, i, plugin_type, env,
                   query, result, ret, built, seen, hist>>

\* load_plugins returns; EnvironmentConfig and Environment are complete.
Return ==
    /\ pc = "loop"
    /\ AtItemEnd
    /\ i = Len(items)
    /\ pc' = "done"
    /\ env' = Some([name |-> name_arg, config |-> [plugins |-> plugin_mapping]])
    /\ built' = Some([raw |-> RawConfigs(heap, items), env |-> DeepEnv(heap, env'[1])])
    /\ UNCHANGED <<heap, name_arg, config_arg, items, i, j, plugin_type,
                   plugin_mapping, error, query, result, ret, seen, hist>>

\* Environment.get_plugin_config(t, n)
GetPluginConfig ==
    /\ pc = "done"
    /\ \E t \in PluginTypes, n \in Names :
        /\ query' = Some(<<t, n>>)
        /\ result' = get_plugin_config(env[1], t, n).value
        /\ error' = get_plugin_config(env[1], t, n).raised
    /\ UNCHANGED <<heap, name_arg, config_arg, pc, items, i, j, plugin_type,
                   plugin_mapping, env, ret, built, seen, hist>>

\* The number of caller mutations so far.
Mutated == hist["raw"] + hist["stored"] + hist["returned"] + hist["returned_value"]

\* The caller reads the property `kind` of self, with the outcome r; it
\* keeps the mapping it is given in `ret`, and nothing when the call raises.
Returned(kind, self, r) ==
    /\ heap' = r.heap
    /\ error' = r.raised
    /\ ret' = IF r.raised = ""
              THEN Some([kind |-> kind, of |-> self, value |-> r.value[1]])
              ELSE ret
    /\ seen' = Append(seen, [kind |-> kind, of |-> self, raised |-> r.raised,
                              value |-> r.value,
                              config |-> Deep(heap, self.config),
                              extras |-> Deep(heap, self.extras),
                              deep |-> IF r.raised = ""
                                       THEN Some(Deep(r.heap, r.value[1]))
                                       ELSE None])
    /\ UNCHANGED <<name_arg, config_arg, pc, items, i, j, plugin_type,
                   plugin_mapping, env, query, result, built, hist>>

\* result.extra_config
ExtraConfig ==
    /\ pc = "done"
    /\ result # None
    /\ Len(seen) + Mutated < MaxOps
    /\ Returned("extra_config", result[1], extra_config(heap, result[1]))

\* result.config_with_extras
ConfigWithExtras ==
    /\ pc = "done"
    /\ result # None
    /\ Len(seen) + Mutated < MaxOps
    /\ Returned("config_with_extras", result[1], config_with_extras(heap, result[1]))

Next ==
    \/ Construct
    \/ NextItem
    \/ LoadPlugin
    \/ Return
    \/ GetPluginConfig

Spec == Init /\ [][Next]_vars

\* The caller changes one of the dicts at `targets`.
Mutate(kind, targets) ==
    /\ pc = "done"
    /\ Len(seen) + Mutated < MaxOps
    /\ \E a \in targets : \E d \in Mutations(heap[a]) :
        heap' = [heap EXCEPT ![a] = d]
    /\ hist' = [hist EXCEPT ![kind] = @ + 1]
    /\ UNCHANGED <<name_arg, config_arg, pc, items, i, j, plugin_type,
                   plugin_mapping, env, error, query, result, ret, built, seen>>

\* The raw config mappings the environment was built from, with all they hold.
RawTargets ==
    UNION {IF "config" \in DOMAIN RawSpec(items, pos)
           THEN Reach(heap, RawSpec(items, pos)["config"]) ELSE {} :
           pos \in Positions(items)}

MutateRaw == Mutate("raw", RawTargets)
MutateStored ==
    /\ result # None
    /\ Mutate("stored", Reach(heap, result[1].config))
MutateReturned ==
    /\ ret # None
    /\ Mutate("returned", {ret[1].value[2]})
MutateReturnedValue ==
    /\ ret # None
    /\ Mutate("returned_value", Reach(heap, ret[1].value) \ {ret[1].value[2]})

NextAlias ==
    \/ Construct
    \/ NextItem
    \/ LoadPlugin
    \/ Return
    \/ GetPluginConfig
    \/ ExtraConfig
    \/ ConfigWithExtras
    \/ MutateRaw
    \/ MutateStored
    \/ MutateReturned
    \/ MutateReturnedValue

SpecAlias == InitAlias /\ [][NextAlias]_vars

(***************************************************************************)
(* Properties of construction and lookup (specification Spec).             *)
(***************************************************************************)
Terminated == pc \in {"done", "raised"}
Plugins == env[1].config.plugins

\* The raw `plugins` mapping of the config argument, None if it has none.
RawPlugins ==
    IF config_arg # None /\ "plugins" \in DOMAIN config_arg[1]
    THEN Some(config_arg[1]["plugins"])
    ELSE None

WellFormed(raw) ==
    /\ "name" \in DOMAIN raw
    /\ {"self", "plugin_type"} \cap DOMAIN raw = {}
    /\ ~IsRef(raw["name"])

\* The positions of the raw specs listed for the pair key.
Listed(its, key) ==
    {pos \in Positions(its) :
        /\ IsPluginType(its[pos[1]].type)
        /\ PluginType(its[pos[1]].type) = key[1]
        /\ "name" \in DOMAIN RawSpec(its, pos)
        /\ RawSpec(its, pos)["name"] = key[2]}

Before(p, q) == p[1] < q[1] \/ (p[1] = q[1] /\ p[2] < q[2])

\* The last position, in iteration order, of the set of positions ps.
Last(ps) == CHOOSE p \in ps : \A q \in ps : q = p \/ Before(q, p)

\* The (type, name) pairs the raw mapping lists.
ListedKeys(its) ==
    {<<PluginType(its[pos[1]].type), RawSpec(its, pos)["name"]>> :
        pos \in {q \in Positions(its) : IsPluginType(its[q[1]].type)
                                        /\ "name" \in DOMAIN RawSpec(its, q)}}

\* The deep values an override built from the raw spec must hold.
ExpectedConfig(h, raw) ==
    IF "config" \in DOMAIN raw
    THEN IF Truthy(h, raw["config"])
         THEN Deep(h, raw["config"])
         ELSE <<"dict", EmptyDict>>
    ELSE <<"dict", EmptyDict>>
ExpectedExtras(h, raw) ==
    <<"dict", [k \in (DOMAIN raw) \ {"name", "config"} |-> Deep(h, raw[k])]>>

\* C1: get_plugin_config(plugin_type, name) returns the override stored
\* under exactly (plugin_type, name) when that key is present and None, with
\* no error, when it is not; a name stored under another type is not returned.
C1_LookupByTypeAndName ==
    (pc = "done" /\ query # None) =>
        /\ error = ""
        /\ IF \E key \in DOMAIN Plugins : key = query[1]
           THEN /\ result = Some(Plugins[query[1]])
                /\ result[1].plugin_type = query[1][1]
                /\ result[1].name = query[1][2]
                /\ Listed(items, query[1]) # {}
           ELSE /\ result = None
                /\ Listed(items, query[1]) = {}

C1_Witness ==
    /\ pc = "done"
    /\ query # None
    /\ result = None
    /\ \E key \in DOMAIN Plugins : key[2] = query[1][2] /\ key[1] # query[1][1]

\* C2: at every step of load_plugins and in the finished EnvironmentConfig,
\* each key of the index is its value's own (plugin_type, name): the type
\* resolved from the raw type string of a spec listed with that name.
KeysMatch(mapping) ==
    \A key \in DOMAIN mapping :
        /\ key = <<mapping[key].plugin_type, mapping[key].name>>
        /\ Listed(items, key) # {}

C2_KeysMatchValues ==
    /\ KeysMatch(plugin_mapping)
    /\ env # None => KeysMatch(Plugins)

C2_Witness ==
    /\ pc = "loop"
    /\ \E k1, k2 \in DOMAIN plugin_mapping : k1[1] # k2[1] /\ k1[2] = k2[2]

\* C3: when the raw input lists a (type, name) pair more than once and is
\* otherwise valid, construction succeeds and the index holds one entry for
\* the pair, with the config and extras of the spec listed last.
AllValid(its) ==
    /\ \A a \in 1..Len(its) : IsPluginType(its[a].type)
    /\ \A pos \in Positions(its) : WellFormed(RawSpec(its, pos))

C3_LastSpecWins ==
    (Terminated /\ RawPlugins # None) =>
        LET its == RawPlugins[1]
            dup == {key \in ListedKeys(its) : Cardinality(Listed(its, key)) > 1}
        IN /\ (dup # {} /\ AllValid(its) /\ DOMAIN config_arg[1] = {"plugins"})
                => pc = "done" /\ error = ""
           /\ pc = "done" =>
                \A key \in dup :
                    /\ key \in DOMAIN Plugins
                    /\ Deep(heap, Plugins[key].config) =
                           ExpectedConfig(heap, RawSpec(its, Last(Listed(its, key))))
                    /\ Deep(heap, Plugins[key].extras) =
                           ExpectedExtras(heap, RawSpec(its, Last(Listed(its, key))))

C3_Witness ==
    /\ pc = "done"
    /\ \E key \in DOMAIN Plugins :
        /\ Cardinality(Listed(items, key)) > 1
        /\ \E pos \in Listed(items, key) :
            /\ ExpectedConfig(heap, RawSpec(items, pos)) # Deep(heap, Plugins[key].config)
            /\ ExpectedExtras(heap, RawSpec(items, pos)) # Deep(heap, Plugins[key].extras)

\* C4: the index has one entry per distinct (type, name) pair of the raw
\* input: N entries for N raw specs with pairwise distinct pairs.
C4_OneEntryPerPair ==
    pc = "done" =>
        /\ Cardinality(DOMAIN Plugins) = Cardinality(ListedKeys(items))
        /\ (\A key \in ListedKeys(items) : Cardinality(Listed(items, key)) = 1)
              => Cardinality(DOMAIN Plugins) = Cardinality(Positions(items))

C4_Witness ==
    /\ pc = "done"
    /\ Cardinality(Positions(items)) = 3
    /\ Cardinality(DOMAIN Plugins) = 3
    /\ \E k1, k2 \in DOMAIN Plugins : k1[1] # k2[1] /\ k1[2] = k2[2]

\* C8 as claimed: with an unrecognized plugin-type key anywhere in the raw
\* `plugins` mapping the constructor is given, construction fails with the
\* invalid-plugin-type error and no object results.
HasUnknownType ==
    /\ RawPlugins # None
    /\ \E a \in 1..Len(RawPlugins[1]) : ~IsPluginType(RawPlugins[1][a].type)

C8_FailsWithInvalidType ==
    (HasUnknownType /\ DOMAIN config_arg[1] = {"plugins"} /\ Terminated) =>
        pc = "raised" /\ error = "ValueError" /\ env = None

\* C8 as amended: with an unrecognized plugin-type key anywhere in the raw
\* mapping, also one with an empty spec list, construction fails and no
\* object results; the error is the invalid-plugin-type error when the
\* config has no key but `plugins` and every spec listed before the first
\* unrecognized key is well-formed, and the TypeError of the malformed
\* input otherwise.
FirstUnknown(its) ==
    CHOOSE a \in 1..Len(its) :
        /\ ~IsPluginType(its[a].type)
        /\ \A b \in 1..(a - 1) : IsPluginType(its[b].type)

C8_FailsWithFirstError ==
    HasUnknownType =>
        /\ pc # "done"
        /\ env = None
        /\ built = None
        /\ Terminated =>
            LET its == RawPlugins[1]
                clean == /\ DOMAIN config_arg[1] = {"plugins"}
                         /\ \A pos \in Positions(its) :
                              pos[1] < FirstUnknown(its) => WellFormed(RawSpec(its, pos))
            IN error = IF clean THEN "ValueError" ELSE "TypeError"

C8_Witness ==
    /\ pc = "raised"
    /\ error = "ValueError"
    /\ env = None
    /\ plugin_mapping # <<>>
    /\ items[i + 1].specs = <<>>

\* C9: an Environment built with no config, or an empty one, is built
\* without error and has an empty index, so every lookup returns None.
C9_NoConfigEmptyIndex ==
    (config_arg = None \/ config_arg = Some(EmptyDict)) =>
        /\ pc # "raised"
        /\ error = ""
        /\ pc = "done" => DOMAIN Plugins = {}
        /\ query # None => result = None

C9_Witness ==
    /\ config_arg = None
    /\ pc = "done"
    /\ query # None
    /\ result = None

(***************************************************************************)
(* Properties of one override and of what its caller holds (specification  *)
(* SpecAlias).                                                             *)
(***************************************************************************)
Underscored(extras) == {"_" \o k : k \in DOMAIN extras}

\* A recorded call returned the union of the config and the prefixed extras
\* it read: the keys of both, a key of config alone with the config value,
\* and a key of both ("_k" in config, "k" in extras) with the extras value.
IsUnion(call) ==
    LET view == call.deep[1][2]
        config == call.config[2]
        extras == call.extras[2]
    IN /\ DOMAIN view = (DOMAIN config) \cup Underscored(extras)
       /\ \A key \in (DOMAIN config) \ Underscored(extras) :
              view[key] = config[key]
       /\ \A k \in DOMAIN extras : view["_" \o k] = extras[k]

\* C5 as claimed: for every override, config_with_extras is the union of
\* config and extra_config, with the extras value on a key of both.
C5_UnionForEveryOverride ==
    \A c \in 1..Len(seen) :
        seen[c].kind = "config_with_extras" =>
            /\ seen[c].raised = ""
            /\ IsUnion(seen[c])

\* C5 as amended: for every override whose config is a mapping,
\* config_with_extras is the union of config and extra_config: its keys are
\* those of both, a key of config alone keeps the config value, and a key of
\* both holds the extras value; for an override built with a truthy config
\* that is not a mapping, which the constructor keeps, config_with_extras
\* raises TypeError and returns nothing.
C5_ExtrasOverrideConfig ==
    \A c \in 1..Len(seen) :
        seen[c].kind = "config_with_extras" =>
            IF seen[c].config[1] = "dict"
            THEN /\ seen[c].raised = ""
                 /\ IsUnion(seen[c])
            ELSE /\ seen[c].raised = "TypeError"
                 /\ seen[c].value = None
                 /\ seen[c].of.config = RawSpec(items, <<1, 1>>)["config"]
                 /\ Truthy(heap, seen[c].of.config)

C5_Witness ==
    /\ \E c \in 1..Len(seen) :
        /\ seen[c].kind = "config_with_extras"
        /\ seen[c].raised = ""
        /\ {"x", "_select"} \subseteq DOMAIN seen[c].config[2]
        /\ "select" \in DOMAIN seen[c].extras[2]
        /\ seen[c].config[2]["_select"] # seen[c].extras[2]["select"]
        /\ seen[c].deep[1][2]["_select"] = seen[c].extras[2]["select"]
        /\ seen[c].deep[1][2]["x"] = seen[c].config[2]["x"]

\* C6: the keys of extra_config are exactly the keys of extras with one
\* underscore prepended (also to a key that starts with one), as many as
\* extras has, each with the value extras gives; extras holds every key of
\* the raw spec but name and config, and nothing else.
C6_ExtraConfigPrefixesExtras ==
    /\ \A c \in 1..Len(seen) :
        seen[c].kind = "extra_config" =>
            LET view == seen[c].deep[1][2]
                extras == seen[c].extras[2]
            IN /\ seen[c].raised = ""
               /\ DOMAIN view = Underscored(extras)
               /\ Cardinality(DOMAIN view) = Cardinality(DOMAIN extras)
               /\ \A k \in DOMAIN extras : view["_" \o k] = extras[k]
    /\ pc = "done" =>
        \A key \in DOMAIN Plugins :
            LET raw == RawSpec(items, Last(Listed(items, key)))
                extras == heap[Plugins[key].extras[2]]
            IN /\ WellFormed(raw)
               /\ DOMAIN extras = (DOMAIN raw) \ {"name", "config"}
               /\ \A k \in DOMAIN extras : extras[k] = raw[k]

C6_Witness ==
    \E c \in 1..Len(seen) :
        /\ seen[c].kind = "extra_config"
        /\ DOMAIN seen[c].extras[2] = {"select", "_select"}
        /\ DOMAIN seen[c].deep[1][2] = {"_select", "__select"}
        /\ "config" \in DOMAIN RawSpec(items, <<1, 1>>)

\* C7: an override's config and the raw config mapping it was built from
\* share no object: whatever the caller does to the raw mapping, at the top
\* or inside, the override's config keeps the value the raw mapping had at
\* construction, and what is done to the override's config leaves the raw
\* mapping as it was.
C7_ConfigIsolated ==
    pc = "done" =>
        \A key \in DOMAIN Plugins :
            LET pos == Last(Listed(items, key))
                raw == RawSpec(items, pos)
                self == Plugins[key]
            IN "config" \in DOMAIN raw =>
                /\ Reach(heap, raw["config"]) \cap Reach(heap, self.config) = {}
                /\ hist["raw"] = 0 =>
                       Deep(heap, raw["config"]) = built[1].raw[pos][1]
                /\ (hist["stored"] = 0 /\ hist["returned_value"] = 0) =>
                       Deep(heap, self.config) = built[1].raw[pos][1]

C7_Witness ==
    /\ pc = "done"
    /\ hist["raw"] = 2
    /\ hist["stored"] = 0 /\ hist["returned_value"] = 0
    /\ \E key \in DOMAIN Plugins :
        LET pos == Last(Listed(items, key))
            raw == RawSpec(items, pos)
        IN /\ "config" \in DOMAIN raw
           /\ 2 \in Reach(heap, raw["config"])
           /\ heap[2] # NestedB
           /\ DOMAIN heap[1] # DOMAIN built[1].raw[pos][1][2]
           /\ Deep(heap, Plugins[key].config) = built[1].raw[pos][1]

\* The keys of the dict v in h; of a value that is no dict, the value.
KeysOf(h, v) == IF IsRef(v) THEN DOMAIN h[v[2]] ELSE v
DeepKeysOf(d) == IF d[1] = "dict" THEN DOMAIN d[2] ELSE d

\* The objects the environment holds for its overrides.
StoredValues == UNION {{Plugins[key].config, Plugins[key].extras} : key \in DOMAIN Plugins}

\* Calls of get_plugin_config, extra_config and config_with_extras leave
\* the environment's name, the keys of its index and every override's config
\* and extras as they were; changing the keys of a returned mapping changes
\* no key set of the override, and repeated calls have equal outcomes.
CallsLeaveEnvironmentUnchanged ==
    /\ (hist["stored"] = 0 /\ hist["returned_value"] = 0) =>
        /\ DeepEnv(heap, env[1]) = built[1].env
        /\ \A c, d \in 1..Len(seen) :
               (seen[c].kind = seen[d].kind /\ seen[c].of = seen[d].of)
                   => seen[c].raised = seen[d].raised /\ seen[c].deep = seen[d].deep
    /\ hist["stored"] = 0 =>
        /\ env[1].name = built[1].env.name
        /\ DOMAIN Plugins = DOMAIN built[1].env.plugins
        /\ \A key \in DOMAIN Plugins :
            /\ KeysOf(heap, Plugins[key].config) =
                   DeepKeysOf(built[1].env.plugins[key].config)
            /\ KeysOf(heap, Plugins[key].extras) =
                   DeepKeysOf(built[1].env.plugins[key].extras)

\* The recorded call c returned a mapping that is held neither by the
\* environment nor as the result of another call.
ReturnedNewMapping(c) ==
    /\ seen[c].raised = ""
    /\ seen[c].value # None
    /\ IsRef(seen[c].value[1])
    /\ seen[c].value[1] \notin StoredValues
    /\ \A d \in 1..Len(seen) : d # c => seen[d].value # seen[c].value

\* C10 as claimed: the calls leave the environment unchanged, and each call
\* of extra_config or config_with_extras returns a newly built mapping.
C10_EveryCallReturnsNewMapping ==
    pc = "done" =>
        /\ CallsLeaveEnvironmentUnchanged
        /\ \A c \in 1..Len(seen) : ReturnedNewMapping(c)

\* C10 as amended: the calls leave the environment unchanged, those that
\* raise included; each call of extra_config, and each call of
\* config_with_extras on an override whose config is a mapping, returns a
\* newly built mapping; config_with_extras on an override whose config is
\* not a mapping raises TypeError on every call, returns nothing and
\* changes nothing.
C10_CallsLeaveEnvironmentUnchanged ==
    pc = "done" =>
        /\ CallsLeaveEnvironmentUnchanged
        /\ \A c \in 1..Len(seen) :
            IF seen[c].kind = "config_with_extras" /\ seen[c].config[1] # "dict"
            THEN /\ seen[c].raised = "TypeError"
                 /\ seen[c].value = None
                 /\ seen[c].deep = None
            ELSE ReturnedNewMapping(c)

C10_Witness ==
    /\ pc = "done"
    /\ Len(seen) = 2
    /\ hist["returned"] = 1
    /\ seen[1].kind = "config_with_extras"
    /\ seen[2].kind = "config_with_extras"
    /\ seen[1].raised = ""
    /\ seen[1].deep[1][2] # EmptyDict
    /\ Deep(heap, seen[1].value[1]) # seen[1].deep[1]
    /\ seen[2].deep = seen[1].deep

====
